---- MODULE Spec2Model ----
(***************************************************************************)
(* WORK-WORK: the work-session time tracker of src/main.py with its        *)
(* configuration store (src/config_manager.py) and border indicator        *)
(* (src/border_windows.py).                                                *)
(*                                                                         *)
(* Time is counted in clock units; UnitsPerSec units make one second, so   *)
(* that the float elapsed_seconds of the source has sub-second values and  *)
(* int() truncates.  Every handler of the Qt event loop runs to completion *)
(* on the one GUI thread and is one action.  The OS (clock, last user      *)
(* input, foreground window, focus) is the environment.                    *)
(***************************************************************************)
EXTENDS Integers, Sequences, FiniteSets, TLC

\* ---------------------------------------------------------------- bounds
UnitsPerSec == 2
MaxClock == 3
MaxEdits == 2

\* ------------------------------------------------------ program constants
MAX_HISTORY == 5
DEFAULT_IDLE_TIMEOUT == 30

max_time == 99 * 3600 + 59 * 60 + 59

NoExe == "None"
ExplorerExe == "explorer.exe"
SelfExe == "workwork.exe"
Programs == {ExplorerExe, SelfExe}

\* what the user can type into the dialogs (seconds)
TimeChoices == {3, max_time}
GoalChoices == {0, 5}
\* the seconds handed to add_time_to_history (0 is refused)
RecordChoices == {0, 10, 20, 30, 40, 50, 60}

VARIABLES
    \* environment (OS)
    now,                \* monotonic clock, in units
    idle_duration,      \* units since the last user input (GetLastInputInfo)
    active_exe,         \* executable of the foreground window, or NoExe
    self_focused,       \* the application (or a child widget) is the active window
    \* MainWindow
    elapsed_seconds,    \* in units
    active_timer,       \* QElapsedTimer: [valid, start]
    max_time_reached,
    goal_time_reached,
    idle_sound_played,
    foreground_is_tracked,
    wait_to_add_program,
    wait_to_remove_program,
    window_title,
    border_visible,     \* BorderWindows.is_visible
    \* ConfigManager
    idle_timeout,
    goal_time,
    previous_time,
    play_sound_on_idle,
    show_border_when_not_working,
    tracked_programs,
    time_history,
    \* observation of the run (history variables, not program state)
    last_op,            \* the handler that ran last
    last_arg,           \* the seconds value it was given (edits), else 0
    should_count,       \* should_count of the last on_update tick
    counted_time,       \* clock units that passed after a tick with should_count
                        \* (kept only until the first reset / edit / resume)
    edited,             \* a reset, manual time change or resume has happened
    edits,              \* number of menu operations so far (bounded)
    goal_fired,         \* the last step showed the goal alert
    max_fired,          \* the last step showed the maximum-time alert
    sound_fired,        \* the last step played the idle sound
    goal_alerts,        \* goal alerts since the last reset / edit / goal edit
    max_alerts,         \* maximum-time alerts since the last reset / edit / resume
    edit_latched,       \* the goal latch was set by a manual total change
    sounds_in_span,     \* idle sounds in the current idle span
    prev_max,           \* max_time_reached before the last step
    prev_len,           \* Len(time_history) before the last step
    border_call,        \* the BorderWindows call of the last step: show, hide, none
    border_span,        \* an on_update tick has run since the launch and since
                        \* the last change of the border setting
    counting_started,   \* an on_update tick of this process had should_count true
    \* context menu
    history_menu,       \* entries of "Resume a previous time", top to bottom
    \* time display
    label,              \* the text last handed to update_label_safe
    hide_time,
    showing_message,
    \* global hotkeys
    add_program_hotkey,     \* configured sequences, as the parts between "+"
    remove_program_hotkey,
    id_to_cb,           \* HotkeyManager._id_to_cb: id -> callback, or NoCallback
    registered,         \* RegisterHotKey table of the thread: id -> combination
    pending,            \* callbacks posted with QTimer.singleShot(0, cb)
    hotkey_error        \* the last step showed the "Hotkey Error" dialog

env_vars == <<now, idle_duration, active_exe, self_focused>>
win_vars == <<elapsed_seconds, active_timer, max_time_reached, goal_time_reached,
              idle_sound_played, foreground_is_tracked, wait_to_add_program,
              wait_to_remove_program, window_title, border_visible>>
cfg_vars == <<idle_timeout, goal_time, previous_time, play_sound_on_idle,
              show_border_when_not_working, tracked_programs, time_history>>
obs_vars == <<last_op, last_arg, should_count, counted_time, edited, edits,
              goal_fired, max_fired, sound_fired, goal_alerts, max_alerts,
              edit_latched, sounds_in_span, prev_max, prev_len, border_call,
              border_span, counting_started>>
gui_vars == <<history_menu, label, hide_time, showing_message>>
hk_vars == <<add_program_hotkey, remove_program_hotkey, id_to_cb, registered,
             pending, hotkey_error>>
vars == <<env_vars, win_vars, cfg_vars, obs_vars, gui_vars, hk_vars>>

\* ------------------------------------------------------------ pure helpers
Min(a, b) == IF a < b THEN a ELSE b

\* int(x) of a non-negative float number of seconds held in units
IntSeconds(units) == units \div UnitsPerSec

Invalidated == [valid |-> FALSE, start |-> 0]

\* QElapsedTimer.nsecsElapsed() / 1e9 of the running timer, in units
nsecsElapsed == now - active_timer.start

\* elapsed_seconds plus the live segment
Total == elapsed_seconds + (IF active_timer.valid THEN nsecsElapsed ELSE 0)

IdleAt(duration, timeout) == duration >= timeout * UnitsPerSec

\* is_idle(): idle_duration >= self.config.idle_timeout
IdleNow == IdleAt(idle_duration, idle_timeout)

\* is_idle(): the sound is played when idle, enabled and not yet played
is_idle_sound(latch) == IdleNow /\ play_sound_on_idle /\ ~latch

\* is_idle(): idle_sound_played after the call
is_idle_latch(latch) ==
    IF IdleNow
    THEN (IF play_sound_on_idle /\ ~latch THEN TRUE ELSE latch)
    ELSE FALSE

\* update_time_display(): `foreground_is_tracked and not is_idle()` calls
\* is_idle() only when the foreground is tracked
display_sound(fg, latch) == fg /\ is_idle_sound(latch)
display_latch(fg, latch) == IF fg THEN is_idle_latch(latch) ELSE latch

\* mutant: the display folds the live segment into elapsed_seconds
ElapsedAfterDisplay_Folded == Total

\* update_time_display(): the total is computed in a local; elapsed_seconds
\* after the call
ElapsedAfterDisplay == elapsed_seconds

\* list.remove(x): the first occurrence
RECURSIVE RemoveFirst(_, _)
RemoveFirst(h, x) ==
    IF h = << >> THEN << >>
    ELSE IF Head(h) = x THEN Tail(h)
    ELSE <<Head(h)>> \o RemoveFirst(Tail(h), x)

\* mutant: no entry is ever found in the history
InSeq_Never(h, x) == FALSE

InSeq(h, x) == \E i \in 1..Len(h) : h[i] = x

\* mutant: the cap keeps the oldest n entries
LastN_Oldest(h, n) == IF Len(h) > n THEN SubSeq(h, 1, n) ELSE h

\* h[-n:]
LastN(h, n) == IF Len(h) > n THEN SubSeq(h, Len(h) - n + 1, Len(h)) ELSE h

\* mutant: values <= 0 are recorded like any other
add_time_to_history_NoGuard(h, seconds) ==
    LastN(Append(IF InSeq(h, seconds) THEN RemoveFirst(h, seconds) ELSE h,
                 seconds),
          MAX_HISTORY)

\* ConfigManager.add_time_to_history
add_time_to_history(h, seconds) ==
    IF seconds <= 0 THEN h
    ELSE LastN(Append(IF InSeq(h, seconds) THEN RemoveFirst(h, seconds) ELSE h,
                      seconds),
               MAX_HISTORY)

\* mutant: the session is captured without the live segment
save_current_session_Accumulated ==
    IF elapsed_seconds > 0
    THEN add_time_to_history(time_history, IntSeconds(elapsed_seconds))
    ELSE time_history

\* mutant: the stored order, oldest first
get_time_history_Stored(h) == h

\* ConfigManager.get_time_history: list(reversed(self.time_history))
get_time_history(h) == [i \in 1..Len(h) |-> h[Len(h) + 1 - i]]

\* ConfigManager._load_time_history on a persisted list of numbers, each
\* given in units: [int(t) for t in history if t > 0][-5:]
load_time_history(persisted) ==
    LET kept == SelectSeq(persisted, LAMBDA t : t > 0)
    IN  LastN([i \in 1..Len(kept) |-> IntSeconds(kept[i])], MAX_HISTORY)

\* MainWindow.save_current_session: the history after it
save_current_session ==
    IF Total > 0 THEN add_time_to_history(time_history, IntSeconds(Total))
    ELSE time_history

\* ConfigManager._load_tracked_programs
load_tracked_programs(persisted) ==
    IF persisted = {} THEN {ExplorerExe} ELSE persisted

\* the goal latch as change_current_time / resume_time_from_history derive it
GoalLatchAfterEdit(seconds) == seconds >= goal_time /\ goal_time > 0

\* mutant: the goal edit re-derives the latch against the current total
GoalLatchAfterGoalEdit_Rederived(g) == g > 0 /\ Total >= g * UnitsPerSec

\* mutant: the edits keep the maximum-time latch
MaxLatchAfterEdit_Kept == max_time_reached

\* set_goal_time: goal_time_reached after the goal was changed to g
GoalLatchAfterGoalEdit(g) == FALSE

\* reset_time / change_current_time / resume_time_from_history:
\* max_time_reached after them
MaxLatchAfterEdit == FALSE

\* on_update: should_count = self.foreground_is_tracked and not self.is_idle()
ShouldCount == foreground_is_tracked /\ ~IdleNow

\* mutant: the tick shows or hides the border whatever its visibility
BorderCall_EveryTick(sc) ==
    IF ~sc THEN (IF show_border_when_not_working THEN "show" ELSE "none")
    ELSE "hide"

\* on_update: the call made on border_windows
BorderCall(sc) ==
    IF ~sc
    THEN (IF show_border_when_not_working /\ ~border_visible THEN "show" ELSE "none")
    ELSE (IF border_visible THEN "hide" ELSE "none")

\* BorderWindows.is_visible after show(), hide() or no call
VisibleAfter(call) ==
    IF call = "show" THEN TRUE ELSE IF call = "hide" THEN FALSE ELSE border_visible

\* mutant: a tick that does not count always asks to get back to work
TitleAfterUpdate_Always(sc) ==
    IF ~sc THEN "BACK TO WORK" ELSE "KEEP WORKING"

\* on_update: the window title after the tick
TitleAfterUpdate(sc) ==
    IF ~sc
    THEN (IF window_title # "WORK WORK" THEN "BACK TO WORK" ELSE window_title)
    ELSE "KEEP WORKING"

\* mutant: every counting tick restarts the timer
TimerAfterUpdate_Restart(sc) ==
    IF sc THEN [valid |-> TRUE, start |-> now]
    ELSE IF active_timer.valid THEN Invalidated
    ELSE active_timer

\* on_update: the state change of the timer
TimerAfterUpdate(sc) ==
    IF sc /\ ~active_timer.valid THEN [valid |-> TRUE, start |-> now]
    ELSE IF ~sc /\ active_timer.valid THEN Invalidated
    ELSE active_timer

\* mutant: the live segment is dropped when the timer is paused
ElapsedAfterUpdate_Dropped(sc) == elapsed_seconds

ElapsedAfterUpdate(sc) ==
    IF ~sc /\ active_timer.valid THEN elapsed_seconds + nsecsElapsed
    ELSE elapsed_seconds

\* mutants: the alert conditions without their latch
MaxAlertDue_NoLatch(total) == total >= max_time * UnitsPerSec

GoalAlertDue_NoLatch(total) == total >= goal_time * UnitsPerSec /\ goal_time > 0

\* on_update: the alert conditions
MaxAlertDue(total) == ~max_time_reached /\ total >= max_time * UnitsPerSec

GoalAlertDue(total) ==
    /\ ~goal_time_reached
    /\ total >= goal_time * UnitsPerSec
    /\ goal_time > 0

\* what the OS reports as the foreground: no window, a program, or the
\* application itself
Foregrounds ==
    {[exe |-> NoExe, self |-> FALSE], [exe |-> ExplorerExe, self |-> FALSE],
     [exe |-> SelfExe, self |-> TRUE]}

\* ---------------------------------------------------------- global hotkeys
HotkeyIds == 1..3
NoCallback == "none"
NoCombo == [mods |-> 0, vk |-> 0]

\* key combinations held by other applications
ForeignHotkeys == {[mods |-> 3, vk |-> 120]}

\* HotkeyManager._MODS, or-ed over the parts before the key
ModsOf(parts) ==
    LET front == {parts[i] : i \in 1..(Len(parts) - 1)}
    IN  (IF "alt" \in front THEN 1 ELSE 0) + (IF "ctrl" \in front THEN 2 ELSE 0)
        + (IF "shift" \in front THEN 4 ELSE 0) + (IF "win" \in front THEN 8 ELSE 0)

\* the virtual-key code of a key name; 0 when no table knows the name
VkOf(key_name) ==
    CASE key_name = "=" -> 187
      [] key_name = "-" -> 189
      [] key_name = "f9" -> 120
      [] key_name = "a" -> 65
      [] OTHER -> 0

\* HotkeyManager._parse: ok is FALSE where the code raises ValueError
parse(seq) ==
    LET vk == VkOf(seq[Len(seq)])
    IN  [ok |-> vk # 0, mods |-> ModsOf(seq), vk |-> vk]

\* the lowest id that is not a key of _id_to_cb
UnusedId(cbs) ==
    CHOOSE i \in HotkeyIds :
        cbs[i] = NoCallback /\ \A j \in HotkeyIds : j < i => cbs[j] # NoCallback

\* user32.RegisterHotKey succeeds
RegisterHotKey(os, id, combo) ==
    /\ os[id] = NoCombo
    /\ combo \notin ForeignHotkeys
    /\ \A i \in HotkeyIds : os[i] # combo

\* HotkeyManager.register on the tables t = [cb, os]
register(t, seq, callback) ==
    LET p  == parse(seq)
        id == UnusedId(t.cb)
        combo == [mods |-> p.mods, vk |-> p.vk]
    IN  IF p.ok /\ RegisterHotKey(t.os, id, combo)
        THEN [cb |-> [t.cb EXCEPT ![id] = callback],
              os |-> [t.os EXCEPT ![id] = combo]]
        ELSE t

\* replace_hotkey: the old hotkey is re-registered after a failure
RestoreAttempted(old_id, old) == old_id # 0 /\ old.mods # 0 /\ old.vk # 0

\* HotkeyManager.replace_hotkey on the tables t = [cb, os]; raised is TRUE
\* where the code raises RuntimeError
replace_hotkey(t, old_sequence, new_sequence, callback) ==
    LET new == parse(new_sequence)
        oldp == parse(old_sequence)
        old == IF oldp.ok THEN [mods |-> oldp.mods, vk |-> oldp.vk] ELSE NoCombo
        old_id == IF \E i \in HotkeyIds : t.cb[i] = callback
                  THEN CHOOSE i \in HotkeyIds : t.cb[i] = callback
                  ELSE 0
        cb1 == IF old_id # 0 THEN [t.cb EXCEPT ![old_id] = NoCallback] ELSE t.cb
        os1 == IF old_id # 0 THEN [t.os EXCEPT ![old_id] = NoCombo] ELSE t.os
        new_id == UnusedId(cb1)
        combo == [mods |-> new.mods, vk |-> new.vk]
    IN  IF ~new.ok THEN [raised |-> TRUE, cb |-> t.cb, os |-> t.os]
        ELSE IF RegisterHotKey(os1, new_id, combo)
        THEN [raised |-> FALSE,
              cb |-> [cb1 EXCEPT ![new_id] = callback],
              os |-> [os1 EXCEPT ![new_id] = combo]]
        ELSE IF RestoreAttempted(old_id, old)
        THEN [raised |-> TRUE,
              cb |-> [cb1 EXCEPT ![old_id] = callback],
              os |-> IF RegisterHotKey(os1, old_id, old)
                     THEN [os1 EXCEPT ![old_id] = old] ELSE os1]
        ELSE [raised |-> TRUE, cb |-> cb1, os |-> os1]

\* the tables after MainWindow.__init__ registered both configured hotkeys
StartupHotkeys(add_seq, remove_seq) ==
    register(register([cb |-> [i \in HotkeyIds |-> NoCallback],
                       os |-> [i \in HotkeyIds |-> NoCombo]],
                      add_seq, "add_program"),
             remove_seq, "remove_program")

\* the handlers that set the hotkey variables themselves
HotkeyOps ==
    {"nativeEventFilter", "set_add_program_shortcut", "set_remove_program_shortcut"}

\* ------------------------------------------------------------ time display
\* int(round(x)) of a non-negative number of seconds held in units: round to
\* the nearest integer, a tie to the even one
round(units) ==
    LET q == units \div UnitsPerSec
        r == units % UnitsPerSec
    IN  IF 2 * r < UnitsPerSec THEN q
        ELSE IF 2 * r > UnitsPerSec THEN q + 1
        ELSE IF q % 2 = 0 THEN q ELSE q + 1

\* mutant: minutes are not reduced modulo the hour
convert_seconds_to_hms_Minutes(units) ==
    LET seconds == round(units)
    IN  [h |-> seconds \div 3600, m |-> seconds \div 60, s |-> seconds % 60]

\* MainWindow.convert_seconds_to_hms
convert_seconds_to_hms(units) ==
    LET seconds == round(units)
    IN  [h |-> seconds \div 3600,
         m |-> (seconds % 3600) \div 60,
         s |-> seconds % 60]

\* the decimal digits of n >= 0, most significant first
RECURSIVE Decimal(_)
Decimal(n) == IF n < 10 THEN <<n>> ELSE Append(Decimal(n \div 10), n % 10)

\* the number a sequence of decimal digits denotes
RECURSIVE Number(_)
Number(d) ==
    IF d = << >> THEN 0
    ELSE 10 * Number(SubSeq(d, 1, Len(d) - 1)) + d[Len(d)]

\* the format {n:02}: at least two digits, zero-padded
Pad2(n) == IF n < 10 THEN <<0, n>> ELSE Decimal(n)

\* label texts: f"{h:02}:{m:02}:{s:02}", "--:--:--", a temporary message
TimeLabel(hms) ==
    [kind |-> "time", hh |-> Pad2(hms.h), mm |-> Pad2(hms.m), ss |-> Pad2(hms.s)]
HiddenLabel == [kind |-> "hidden", hh |-> << >>, mm |-> << >>, ss |-> << >>]
MessageLabel == [kind |-> "message", hh |-> << >>, mm |-> << >>, ss |-> << >>]

\* mutant: the total is displayed without the clamp
update_time_display_Unclamped(total, hidden) ==
    IF hidden THEN HiddenLabel ELSE TimeLabel(convert_seconds_to_hms(total))

\* MainWindow.update_time_display: the text for a total (in units), when no
\* message is showing
update_time_display(total, hidden) ==
    LET clamped == Min(total, max_time * UnitsPerSec)
    IN  IF hidden THEN HiddenLabel
        ELSE TimeLabel(convert_seconds_to_hms(clamped))

\* the handlers that end in update_time_display()
DisplayOps ==
    {"on_update", "check_active_window", "change_current_time",
     "resume_time_from_history", "reset_time", "add_program", "remove_program",
     "checkbox_was_toggled", "clear_message"}

\* add_program / remove_program return before any display call
ReturnsEarly(op) ==
    /\ op \in {"add_program", "remove_program"}
    /\ (active_exe = NoExe \/ self_focused)

\* the handler calls show_message
ShowsMessage(op) ==
    \/ op \in {"add_program_mouse", "remove_program_mouse", "toggle_idle_sound",
              "toggle_border_indicator"}
    \/ op \in {"add_program", "remove_program"} /\ ~ReturnsEarly(op)
    \/ /\ op = "check_active_window"
       /\ (wait_to_add_program \/ wait_to_remove_program)
       /\ ~self_focused
       /\ active_exe # NoExe

\* ------------------------------------------------------ observation helpers
\* the handlers that end the process
ExitOps == {"closeEvent", "handle_exception"}

Obs(op, arg, goalf, maxf, soundf) ==
    /\ last_op' = op
    /\ last_arg' = arg
    /\ goal_fired' = goalf
    /\ max_fired' = maxf
    /\ sound_fired' = soundf
    /\ prev_max' = max_time_reached
    /\ prev_len' = Len(time_history)
    /\ IF op \in {"on_update", "toggle_border_indicator"} THEN TRUE
       ELSE border_call' = (IF op \in ExitOps /\ border_visible
                           THEN "hide" ELSE "none")
    /\ counting_started' = IF op = "init" THEN FALSE
                           ELSE IF op = "on_update"
                           THEN (counting_started \/ ShouldCount)
                           ELSE counting_started
    /\ border_span' = IF op \in ExitOps \cup {"init", "toggle_border_indicator"}
                      THEN FALSE
                      ELSE IF op = "on_update" THEN TRUE ELSE border_span
    /\ history_menu' = IF op = "update_menu"
                       THEN get_time_history(time_history)
                       ELSE history_menu
    /\ IF op \in HotkeyOps THEN TRUE
       ELSE /\ UNCHANGED <<add_program_hotkey, remove_program_hotkey>>
            /\ hotkey_error' = FALSE
            /\ pending' =
                 IF op \in ExitOps \cup {"init"} THEN << >>
                 ELSE IF pending # << >> /\ Head(pending) = op THEN Tail(pending)
                 ELSE pending
            /\ id_to_cb' =
                 IF op \in ExitOps THEN [i \in HotkeyIds |-> NoCallback]
                 ELSE IF op = "init"
                 THEN StartupHotkeys(add_program_hotkey, remove_program_hotkey).cb
                 ELSE id_to_cb
            /\ registered' =
                 IF op \in ExitOps THEN [i \in HotkeyIds |-> NoCombo]
                 ELSE IF op = "init"
                 THEN StartupHotkeys(add_program_hotkey, remove_program_hotkey).os
                 ELSE registered
    /\ hide_time' = IF op = "init" THEN FALSE
                    ELSE IF op = "checkbox_was_toggled" THEN ~hide_time
                    ELSE hide_time
    /\ showing_message' = IF op \in {"init", "clear_message"} THEN FALSE
                          ELSE (showing_message \/ ShowsMessage(op))
    /\ label' = IF op = "init" THEN TimeLabel([h |-> 0, m |-> 0, s |-> 0])
                ELSE IF ShowsMessage(op) THEN MessageLabel
                ELSE IF op \in DisplayOps /\ ~ReturnsEarly(op) /\ ~showing_message'
                THEN update_time_display(Total', hide_time')
                ELSE label
    /\ sounds_in_span' =
         IF ~IdleAt(idle_duration', idle_timeout') THEN 0
         ELSE Min(2, sounds_in_span + (IF soundf THEN 1 ELSE 0))

\* -------------------------------------------------------------------- Init
\* mutant: the persisted previous_time is not recorded at startup
carry_over_Skipped(h, prev) == h

\* MainWindow.__init__: the previous session is saved to the history if it
\* exists
carry_over(h, prev) == IF prev > 0 THEN add_time_to_history(h, prev) ELSE h

\* MainWindow.__init__ on the settings c that the file holds
Startup(c) ==
    /\ now = 0
    /\ idle_duration = 0
    /\ elapsed_seconds = 0
    /\ active_timer = Invalidated
    /\ max_time_reached = FALSE
    /\ goal_time_reached = FALSE
    /\ idle_sound_played = FALSE
    /\ foreground_is_tracked = FALSE
    /\ wait_to_add_program = FALSE
    /\ wait_to_remove_program = FALSE
    /\ window_title = "WORK WORK"
    /\ border_visible = FALSE
    /\ idle_timeout = c.idle_timeout
    /\ goal_time = c.goal_time
    /\ previous_time = c.previous_time
    /\ play_sound_on_idle = c.play_sound_on_idle
    /\ show_border_when_not_working = c.show_border_when_not_working
    /\ tracked_programs = load_tracked_programs(c.programs)
    /\ time_history = carry_over(load_time_history(c.time_history),
                                 c.previous_time)
    /\ last_op = "init"
    /\ last_arg = 0
    /\ should_count = FALSE
    /\ counted_time = 0
    /\ edited = FALSE
    /\ edits = 0
    /\ goal_fired = FALSE
    /\ max_fired = FALSE
    /\ sound_fired = FALSE
    /\ goal_alerts = 0
    /\ max_alerts = 0
    /\ edit_latched = FALSE
    /\ sounds_in_span = 0
    /\ prev_max = FALSE
    /\ prev_len = Len(time_history)
    /\ border_call = "none"
    /\ border_span = FALSE
    /\ counting_started = FALSE
    /\ history_menu = << >>
    /\ label = TimeLabel([h |-> 0, m |-> 0, s |-> 0])
    /\ hide_time = FALSE
    /\ showing_message = FALSE
    /\ add_program_hotkey = <<"win", "shift", "=">>
    /\ remove_program_hotkey = <<"win", "shift", "-">>
    /\ id_to_cb = StartupHotkeys(add_program_hotkey, remove_program_hotkey).cb
    /\ registered = StartupHotkeys(add_program_hotkey, remove_program_hotkey).os
    /\ pending = << >>
    /\ hotkey_error = FALSE

\* the settings files the engine is started on
PersistedConfigs ==
    {[idle_timeout |-> 1, goal_time |-> 5, previous_time |-> 0,
      play_sound_on_idle |-> TRUE, show_border_when_not_working |-> TRUE,
      programs |-> {}, time_history |-> << >>],
     [idle_timeout |-> 1, goal_time |-> 5, previous_time |-> 4,
      play_sound_on_idle |-> TRUE, show_border_when_not_working |-> TRUE,
      programs |-> {ExplorerExe, SelfExe},
      time_history |-> <<3 * UnitsPerSec>>]}

Init ==
    /\ active_exe = NoExe
    /\ self_focused = FALSE
    /\ \E c \in PersistedConfigs : Startup(c)

\* ------------------------------------------------------------- environment
\* one clock unit passes without user input
Advance ==
    /\ now < MaxClock
    /\ now' = now + 1
    /\ idle_duration' = idle_duration + 1
    /\ counted_time' = IF edited THEN 0
                       ELSE counted_time + (IF should_count THEN 1 ELSE 0)
    /\ UNCHANGED <<active_exe, self_focused, win_vars, cfg_vars>>
    /\ UNCHANGED <<should_count, edited, edits, goal_alerts, max_alerts, edit_latched>>
    /\ Obs("env", 0, FALSE, FALSE, FALSE)

\* keyboard or mouse input: GetLastInputInfo is now
UserInput ==
    /\ idle_duration > 0
    /\ idle_duration' = 0
    /\ UNCHANGED <<now, active_exe, self_focused, win_vars, cfg_vars>>
    /\ UNCHANGED <<should_count, counted_time, edited, edits, goal_alerts,
                   max_alerts, edit_latched>>
    /\ Obs("env", 0, FALSE, FALSE, FALSE)

\* another window comes to the foreground
FocusChange ==
    /\ \E f \in Foregrounds :
         /\ <<f.exe, f.self>> # <<active_exe, self_focused>>
         /\ active_exe' = f.exe
         /\ self_focused' = f.self
    /\ UNCHANGED <<now, idle_duration, win_vars, cfg_vars>>
    /\ UNCHANGED <<should_count, counted_time, edited, edits, goal_alerts,
                   max_alerts, edit_latched>>
    /\ Obs("env", 0, FALSE, FALSE, FALSE)

\* ---------------------------------------------------------------- handlers
\* MainWindow.on_update (the 200 ms tick)
OnUpdate ==
    LET sc    == ShouldCount
        snd1  == display_sound(foreground_is_tracked, idle_sound_played)
        l1    == display_latch(foreground_is_tracked, idle_sound_played)
        el    == ElapsedAfterUpdate(sc)
        tm    == TimerAfterUpdate(sc)
        total == el + (IF tm.valid THEN now - tm.start ELSE 0)
        maxf  == MaxAlertDue(total)
        goalf == GoalAlertDue(total)
        \* the closing update_time_display()
        snd2  == display_sound(foreground_is_tracked, l1)
        l2    == display_latch(foreground_is_tracked, l1)
    IN  /\ elapsed_seconds' = el
        /\ active_timer' = tm
        /\ max_time_reached' = (max_time_reached \/ maxf)
        /\ goal_time_reached' = (goal_time_reached \/ goalf)
        /\ idle_sound_played' = l2
        /\ window_title' = TitleAfterUpdate(sc)
        /\ border_call' = BorderCall(sc)
        /\ border_visible' = VisibleAfter(BorderCall(sc))
        /\ UNCHANGED <<foreground_is_tracked, wait_to_add_program,
                       wait_to_remove_program>>
        /\ UNCHANGED <<env_vars, cfg_vars>>
        /\ should_count' = sc
        /\ goal_alerts' = Min(2, goal_alerts + (IF goalf THEN 1 ELSE 0))
        /\ max_alerts' = Min(2, max_alerts + (IF maxf THEN 1 ELSE 0))
        /\ UNCHANGED <<counted_time, edited, edits, edit_latched>>
        /\ Obs("on_update", 0, goalf, maxf, snd1 \/ snd2)

\* mutant: add_program records the program and leaves foreground_is_tracked
add_program_FlagKept(tr, fg, latch) ==
    IF active_exe = NoExe \/ self_focused
    THEN [tracked |-> tr, fg |-> fg, latch |-> latch, sound |-> FALSE]
    ELSE [tracked |-> tr \cup {active_exe}, fg |-> fg,
          latch |-> display_latch(fg, latch),
          sound |-> display_sound(fg, latch)]

\* MainWindow.add_program on (tracked set, foreground_is_tracked, sound latch)
add_program(tr, fg, latch) ==
    IF active_exe = NoExe \/ self_focused
    THEN [tracked |-> tr, fg |-> fg, latch |-> latch, sound |-> FALSE]
    ELSE [tracked |-> tr \cup {active_exe}, fg |-> TRUE,
          latch |-> display_latch(TRUE, latch),
          sound |-> display_sound(TRUE, latch)]

\* mutant: remove_program does not look at the application's own focus
remove_program_NoSelfGuard(tr, fg, latch) ==
    IF active_exe = NoExe
    THEN [tracked |-> tr, fg |-> fg, latch |-> latch, sound |-> FALSE]
    ELSE [tracked |-> tr \ {active_exe}, fg |-> FALSE,
          latch |-> display_latch(FALSE, latch),
          sound |-> display_sound(FALSE, latch)]

\* MainWindow.remove_program
remove_program(tr, fg, latch) ==
    IF active_exe = NoExe \/ self_focused
    THEN [tracked |-> tr, fg |-> fg, latch |-> latch, sound |-> FALSE]
    ELSE [tracked |-> tr \ {active_exe}, fg |-> FALSE,
          latch |-> display_latch(FALSE, latch),
          sound |-> display_sound(FALSE, latch)]

\* mutant: the poll does not look at the application's own focus
PollTracked_NoSelf == active_exe # NoExe /\ active_exe \in tracked_programs

\* check_active_window: foreground_is_tracked as the poll computes it
PollTracked ==
    /\ active_exe # NoExe
    /\ active_exe \in tracked_programs
    /\ ~self_focused

\* mutant: a pending remove request is served before a pending add request
click_handler_RemoveFirst(tr, fg, latch) ==
    IF wait_to_remove_program THEN remove_program(tr, fg, latch)
    ELSE IF wait_to_add_program THEN add_program(tr, fg, latch)
    ELSE [tracked |-> tr, fg |-> fg, latch |-> latch, sound |-> FALSE]

\* MainWindow.click_handler
click_handler(tr, fg, latch) ==
    IF wait_to_add_program THEN add_program(tr, fg, latch)
    ELSE IF wait_to_remove_program THEN remove_program(tr, fg, latch)
    ELSE [tracked |-> tr, fg |-> fg, latch |-> latch, sound |-> FALSE]

\* MainWindow.check_active_window (the 200 ms activity poll)
CheckActiveWindow ==
    LET consume == (wait_to_add_program \/ wait_to_remove_program) /\ ~self_focused
        r == IF consume
             THEN click_handler(tracked_programs, PollTracked, idle_sound_played)
             ELSE [tracked |-> tracked_programs, fg |-> PollTracked,
                   latch |-> idle_sound_played, sound |-> FALSE]
    IN  /\ foreground_is_tracked' = r.fg
        /\ tracked_programs' = r.tracked
        /\ wait_to_add_program' = (IF consume THEN FALSE ELSE wait_to_add_program)
        /\ wait_to_remove_program' = (IF consume THEN FALSE ELSE wait_to_remove_program)
        /\ idle_sound_played' = display_latch(r.fg, r.latch)
        /\ elapsed_seconds' = ElapsedAfterDisplay
        /\ UNCHANGED <<active_timer, max_time_reached,
                       goal_time_reached, window_title, border_visible>>
        /\ UNCHANGED <<idle_timeout, goal_time, previous_time, play_sound_on_idle,
                       show_border_when_not_working, time_history>>
        /\ UNCHANGED env_vars
        /\ UNCHANGED <<should_count, counted_time, edited, edits, goal_alerts,
                       max_alerts, edit_latched>>
        /\ Obs("check_active_window", 0, FALSE, FALSE,
               r.sound \/ display_sound(r.fg, r.latch))

\* the global hotkeys: add_program / remove_program as deferred tasks
AddProgram ==
    LET r == add_program(tracked_programs, foreground_is_tracked, idle_sound_played)
    IN  /\ foreground_is_tracked' = r.fg
        /\ tracked_programs' = r.tracked
        /\ idle_sound_played' = r.latch
        /\ UNCHANGED <<elapsed_seconds, active_timer, max_time_reached,
                       goal_time_reached, wait_to_add_program,
                       wait_to_remove_program, window_title, border_visible>>
        /\ UNCHANGED <<idle_timeout, goal_time, previous_time, play_sound_on_idle,
                       show_border_when_not_working, time_history>>
        /\ UNCHANGED env_vars
        /\ UNCHANGED <<should_count, counted_time, edited, edits, goal_alerts,
                       max_alerts, edit_latched>>
        /\ Obs("add_program", 0, FALSE, FALSE, r.sound)

RemoveProgram ==
    LET r == remove_program(tracked_programs, foreground_is_tracked, idle_sound_played)
    IN  /\ foreground_is_tracked' = r.fg
        /\ tracked_programs' = r.tracked
        /\ idle_sound_played' = r.latch
        /\ UNCHANGED <<elapsed_seconds, active_timer, max_time_reached,
                       goal_time_reached, wait_to_add_program,
                       wait_to_remove_program, window_title, border_visible>>
        /\ UNCHANGED <<idle_timeout, goal_time, previous_time, play_sound_on_idle,
                       show_border_when_not_working, time_history>>
        /\ UNCHANGED env_vars
        /\ UNCHANGED <<should_count, counted_time, edited, edits, goal_alerts,
                       max_alerts, edit_latched>>
        /\ Obs("remove_program", 0, FALSE, FALSE, r.sound)

\* MainWindow.add_program_mouse / remove_program_mouse (menu)
AddProgramMouse ==
    /\ edits < MaxEdits
    /\ edits' = edits + 1
    /\ wait_to_add_program' = TRUE
    /\ UNCHANGED <<elapsed_seconds, active_timer, max_time_reached,
                   goal_time_reached, idle_sound_played, foreground_is_tracked,
                   wait_to_remove_program, window_title, border_visible>>
    /\ UNCHANGED <<env_vars, cfg_vars>>
    /\ UNCHANGED <<should_count, counted_time, edited, goal_alerts, max_alerts,
                   edit_latched>>
    /\ Obs("add_program_mouse", 0, FALSE, FALSE, FALSE)

RemoveProgramMouse ==
    /\ edits < MaxEdits
    /\ edits' = edits + 1
    /\ wait_to_remove_program' = TRUE
    /\ UNCHANGED <<elapsed_seconds, active_timer, max_time_reached,
                   goal_time_reached, idle_sound_played, foreground_is_tracked,
                   wait_to_add_program, window_title, border_visible>>
    /\ UNCHANGED <<env_vars, cfg_vars>>
    /\ UNCHANGED <<should_count, counted_time, edited, goal_alerts, max_alerts,
                   edit_latched>>
    /\ Obs("remove_program_mouse", 0, FALSE, FALSE, FALSE)

\* mutant: Escape cancels the add request only
FlagsAfterEscape_AddOnly == [add |-> FALSE, remove |-> wait_to_remove_program]

\* eventFilter on Key_Escape: the two request flags after it
FlagsAfterEscape == [add |-> FALSE, remove |-> FALSE]

\* MainWindow.eventFilter on an Escape key press in the focused window
EscapePressed ==
    /\ self_focused
    /\ wait_to_add_program' = FlagsAfterEscape.add
    /\ wait_to_remove_program' = FlagsAfterEscape.remove
    /\ UNCHANGED <<elapsed_seconds, active_timer, max_time_reached,
                   goal_time_reached, idle_sound_played, foreground_is_tracked,
                   window_title, border_visible>>
    /\ UNCHANGED <<env_vars, cfg_vars>>
    /\ UNCHANGED <<should_count, counted_time, edited, edits, goal_alerts,
                   max_alerts, edit_latched>>
    /\ Obs("eventFilter", 0, FALSE, FALSE, FALSE)

\* the menu requests, the polls that serve them and their cancellation
NextRequests ==
    \/ FocusChange
    \/ CheckActiveWindow
    \/ OnUpdate
    \/ AddProgramMouse
    \/ RemoveProgramMouse
    \/ EscapePressed

SpecRequests == Init /\ [][NextRequests]_vars

\* MainWindow.save_data (the 30 s autosave): previous_time after it
save_data == IntSeconds(elapsed_seconds)

\* mutant: the autosave also captures the session into the history
SaveData_Captures ==
    /\ previous_time' = save_data
    /\ time_history' = save_current_session
    /\ UNCHANGED <<idle_timeout, goal_time, play_sound_on_idle,
                   show_border_when_not_working, tracked_programs>>
    /\ UNCHANGED <<env_vars, win_vars>>
    /\ UNCHANGED <<should_count, counted_time, edited, edits, goal_alerts,
                   max_alerts, edit_latched>>
    /\ Obs("save_data", 0, FALSE, FALSE, FALSE)

SaveData ==
    /\ previous_time' = save_data
    /\ UNCHANGED <<idle_timeout, goal_time, play_sound_on_idle,
                   show_border_when_not_working, tracked_programs, time_history>>
    /\ UNCHANGED <<env_vars, win_vars>>
    /\ UNCHANGED <<should_count, counted_time, edited, edits, goal_alerts,
                   max_alerts, edit_latched>>
    /\ Obs("save_data", 0, FALSE, FALSE, FALSE)

\* mutant: reset_time resets whatever the total is
ResetPermitted_Always == TRUE

\* reset_time: only performs the reset if the current total is not 0
ResetPermitted == Total > 0

\* MainWindow.reset_time (menu)
ResetTime ==
    /\ edits < MaxEdits
    /\ edits' = edits + 1
    /\ UNCHANGED <<active_timer, foreground_is_tracked, wait_to_add_program,
                   wait_to_remove_program, window_title, border_visible>>
    /\ UNCHANGED <<idle_timeout, goal_time, play_sound_on_idle,
                   show_border_when_not_working, tracked_programs>>
    /\ UNCHANGED env_vars
    /\ UNCHANGED should_count
    /\ IF ResetPermitted
       THEN /\ time_history' = save_current_session
            /\ counted_time' = 0
            /\ previous_time' = save_data
            /\ elapsed_seconds' = 0
            /\ goal_time_reached' = FALSE
            /\ max_time_reached' = MaxLatchAfterEdit
            /\ idle_sound_played' = display_latch(foreground_is_tracked, idle_sound_played)
            /\ edited' = TRUE
            /\ goal_alerts' = 0
            /\ max_alerts' = 0
            /\ edit_latched' = FALSE
            /\ Obs("reset_time", 0, FALSE, FALSE,
                   display_sound(foreground_is_tracked, idle_sound_played))
       ELSE /\ UNCHANGED <<time_history, previous_time, elapsed_seconds,
                           goal_time_reached, max_time_reached, idle_sound_played,
                           edited, goal_alerts, max_alerts, edit_latched,
                           counted_time>>
            /\ Obs("reset_time_noop", 0, FALSE, FALSE, FALSE)

\* the accepted branch of change_current_time and resume_time_from_history:
\* save_current_session, elapsed_seconds = seconds, update_time_display, latches
SetElapsed(op, seconds) ==
    /\ edits < MaxEdits
    /\ edits' = edits + 1
    /\ time_history' = save_current_session
    /\ elapsed_seconds' = seconds * UnitsPerSec
    /\ idle_sound_played' = display_latch(foreground_is_tracked, idle_sound_played)
    /\ goal_time_reached' = GoalLatchAfterEdit(seconds)
    /\ max_time_reached' = MaxLatchAfterEdit
    /\ UNCHANGED <<active_timer, foreground_is_tracked, wait_to_add_program,
                   wait_to_remove_program, window_title, border_visible>>
    /\ UNCHANGED <<idle_timeout, goal_time, previous_time, play_sound_on_idle,
                   show_border_when_not_working, tracked_programs>>
    /\ UNCHANGED env_vars
    /\ edited' = TRUE
    /\ goal_alerts' = 0
    /\ max_alerts' = 0
    /\ edit_latched' = GoalLatchAfterEdit(seconds)
    /\ counted_time' = 0
    /\ UNCHANGED should_count
    /\ Obs(op, seconds, FALSE, FALSE,
           display_sound(foreground_is_tracked, idle_sound_played))

\* MainWindow.change_current_time (dialog accepted with h:m:s = seconds)
ChangeCurrentTime == \E seconds \in TimeChoices : SetElapsed("change_current_time", seconds)

\* MainWindow.resume_time_from_history (an entry of the history submenu)
ResumeTimeFromHistory ==
    \E i \in 1..Len(time_history) :
        SetElapsed("resume_time_from_history", time_history[i])

\* MainWindow.set_goal_time (dialog accepted)
SetGoalTime ==
    /\ edits < MaxEdits
    /\ edits' = edits + 1
    /\ \E g \in GoalChoices :
         /\ goal_time' = g
         /\ goal_time_reached' = GoalLatchAfterGoalEdit(g)
         /\ UNCHANGED <<elapsed_seconds, active_timer, max_time_reached,
                        idle_sound_played, foreground_is_tracked,
                        wait_to_add_program, wait_to_remove_program, window_title,
                        border_visible>>
         /\ UNCHANGED <<idle_timeout, previous_time, play_sound_on_idle,
                        show_border_when_not_working, tracked_programs, time_history>>
         /\ UNCHANGED env_vars
         /\ goal_alerts' = 0
         /\ edit_latched' = FALSE
         /\ UNCHANGED <<should_count, counted_time, edited, max_alerts>>
         /\ Obs("set_goal_time", g, FALSE, FALSE, FALSE)

\* -------------------------------------------------------- specifications
\* The timing engine: clock, user input, focus, the two 200 ms ticks and the
\* menu operations on the total and the goal.
Next ==
    \/ Advance
    \/ UserInput
    \/ FocusChange
    \/ OnUpdate
    \/ CheckActiveWindow
    \/ ResetTime
    \/ ChangeCurrentTime
    \/ ResumeTimeFromHistory
    \/ SetGoalTime

Spec == Init /\ [][Next]_vars

\* The tracked-program operations (hotkeys, menu gestures) and the autosave.
NextPrograms ==
    \/ Advance
    \/ UserInput
    \/ FocusChange
    \/ OnUpdate
    \/ CheckActiveWindow
    \/ AddProgram
    \/ RemoveProgram
    \/ AddProgramMouse
    \/ RemoveProgramMouse
    \/ SaveData

SpecPrograms == Init /\ [][NextPrograms]_vars

\* MainWindow.closeEvent: the session goes to the history, the border is
\* hidden, save_data persists int(elapsed_seconds)
ExitSession(op) ==
    /\ time_history' = save_current_session
    /\ previous_time' = save_data
    /\ border_visible' = FALSE
    /\ UNCHANGED <<elapsed_seconds, active_timer, max_time_reached,
                   goal_time_reached, idle_sound_played, foreground_is_tracked,
                   wait_to_add_program, wait_to_remove_program, window_title>>
    /\ UNCHANGED <<idle_timeout, goal_time, play_sound_on_idle,
                   show_border_when_not_working, tracked_programs>>
    /\ UNCHANGED env_vars
    /\ UNCHANGED <<should_count, counted_time, edited, edits, goal_alerts,
                   max_alerts, edit_latched>>
    /\ Obs(op, 0, FALSE, FALSE, FALSE)

CloseEvent == ExitSession("closeEvent")

\* MainWindow.handle_exception (sys.excepthook): the same steps, then exit
HandleException == ExitSession("handle_exception")

\* The next launch: MainWindow.__init__ on the settings the closed process
\* left in the file.
Launch ==
    /\ time_history' =
         LET file   == [i \in 1..Len(time_history) |->
                           time_history[i] * UnitsPerSec]
         IN  carry_over(load_time_history(file), previous_time)
    /\ tracked_programs' = load_tracked_programs(tracked_programs)
    /\ elapsed_seconds' = 0
    /\ active_timer' = Invalidated
    /\ max_time_reached' = FALSE
    /\ goal_time_reached' = FALSE
    /\ idle_sound_played' = FALSE
    /\ foreground_is_tracked' = FALSE
    /\ wait_to_add_program' = FALSE
    /\ wait_to_remove_program' = FALSE
    /\ window_title' = "WORK WORK"
    /\ border_visible' = FALSE
    /\ UNCHANGED <<idle_timeout, goal_time, previous_time, play_sound_on_idle,
                   show_border_when_not_working>>
    /\ UNCHANGED env_vars
    /\ should_count' = FALSE
    /\ counted_time' = 0
    /\ edited' = FALSE
    /\ goal_alerts' = 0
    /\ max_alerts' = 0
    /\ edit_latched' = FALSE
    /\ UNCHANGED edits
    /\ Obs("init", 0, FALSE, FALSE, FALSE)

\* the process is running: its window has not been closed
Alive == last_op # "closeEvent"

\* The session ledger: the ticks, the program requests of the menu, the
\* autosave and the operations on the total of one process, its exit and the
\* next launch on the settings file it left.
NextLedger ==
    \/ Alive /\ Advance
    \/ Alive /\ FocusChange
    \/ Alive /\ OnUpdate
    \/ Alive /\ CheckActiveWindow
    \/ Alive /\ AddProgramMouse
    \/ Alive /\ RemoveProgramMouse
    \/ Alive /\ SaveData
    \/ Alive /\ ResetTime
    \/ Alive /\ ChangeCurrentTime
    \/ Alive /\ ResumeTimeFromHistory
    \/ Alive /\ CloseEvent
    \/ ~Alive /\ Launch

\* the process has ended
Exited == last_op \in ExitOps

\* Sessions ended by closing the window or by an uncaught exception, in any
\* run state, and the launches that follow them.
NextExit ==
    \/ ~Exited /\ Advance
    \/ ~Exited /\ FocusChange
    \/ ~Exited /\ OnUpdate
    \/ ~Exited /\ CheckActiveWindow
    \/ ~Exited /\ ResetTime
    \/ ~Exited /\ CloseEvent
    \/ ~Exited /\ HandleException
    \/ Exited /\ Launch

\* a settings file that carries a previous session of 4 s and one older
\* entry; the idle timeout is not reached within the clock bound
InitLedger ==
    /\ active_exe = NoExe
    /\ self_focused = FALSE
    /\ Startup([idle_timeout |-> DEFAULT_IDLE_TIMEOUT, goal_time |-> 0,
                previous_time |-> 4, play_sound_on_idle |-> FALSE,
                show_border_when_not_working |-> FALSE, programs |-> {},
                time_history |-> <<3 * UnitsPerSec>>])

SpecLedger == InitLedger /\ [][NextLedger]_vars

SpecExit == InitLedger /\ [][NextExit]_vars

\* ConfigManager.add_time_to_history called on its own, with any value
RecordValue(x) ==
    /\ time_history' = add_time_to_history(time_history, x)
    /\ UNCHANGED <<idle_timeout, goal_time, previous_time, play_sound_on_idle,
                   show_border_when_not_working, tracked_programs>>
    /\ UNCHANGED <<env_vars, win_vars>>
    /\ UNCHANGED <<should_count, counted_time, edited, edits, goal_alerts,
                   max_alerts, edit_latched>>
    /\ Obs("add_time_to_history", x, FALSE, FALSE, FALSE)

Record == \E x \in RecordChoices : RecordValue(x)

\* the history of a first launch: empty
InitHistory ==
    /\ active_exe = NoExe
    /\ self_focused = FALSE
    /\ Startup([idle_timeout |-> DEFAULT_IDLE_TIMEOUT, goal_time |-> 0,
                previous_time |-> 0, play_sound_on_idle |-> TRUE,
                show_border_when_not_working |-> TRUE, programs |-> {},
                time_history |-> << >>])

NextHistory == Record

SpecHistory == InitHistory /\ [][NextHistory]_vars

\* persisted history lists (numbers in units): empty, a repeated value, a
\* value between 0 and 1, values <= 0 among positive ones, more than 5
PersistedHistories ==
    {<< >>,
     <<7 * UnitsPerSec, 7 * UnitsPerSec>>,
     <<1, 2 * UnitsPerSec>>,
     <<0 - UnitsPerSec, 0, 3 * UnitsPerSec>>,
     <<UnitsPerSec, 2 * UnitsPerSec, 3 * UnitsPerSec, 4 * UnitsPerSec,
       5 * UnitsPerSec, 6 * UnitsPerSec>>}

\* a launch on a settings file whose history list holds arbitrary numbers
InitLoad ==
    /\ active_exe = NoExe
    /\ self_focused = FALSE
    /\ \E h \in PersistedHistories :
         Startup([idle_timeout |-> DEFAULT_IDLE_TIMEOUT, goal_time |-> 0,
                  previous_time |-> 0, play_sound_on_idle |-> TRUE,
                  show_border_when_not_working |-> TRUE, programs |-> {},
                  time_history |-> h])

SpecLoad == InitLoad /\ [][NextHistory]_vars

\* MainWindow.update_menu (menu.aboutToShow): the history submenu is rebuilt
\* from get_time_history()
UpdateMenu ==
    /\ UNCHANGED <<env_vars, win_vars, cfg_vars>>
    /\ UNCHANGED <<should_count, counted_time, edited, edits, goal_alerts,
                   max_alerts, edit_latched>>
    /\ Obs("update_menu", 0, FALSE, FALSE, FALSE)

MenuRecordChoices == {0, 10, 20}

\* sessions are recorded and the context menu is opened, in any order
NextMenu ==
    \/ \E x \in MenuRecordChoices : RecordValue(x)
    \/ UpdateMenu

SpecMenu == InitLoad /\ [][NextMenu]_vars

\* MainWindow.checkbox_was_toggled (the "hide time" checkbox)
CheckboxWasToggled ==
    /\ idle_sound_played' = display_latch(foreground_is_tracked, idle_sound_played)
    /\ UNCHANGED <<elapsed_seconds, active_timer, max_time_reached,
                   goal_time_reached, foreground_is_tracked, wait_to_add_program,
                   wait_to_remove_program, window_title, border_visible>>
    /\ UNCHANGED <<env_vars, cfg_vars>>
    /\ UNCHANGED <<should_count, counted_time, edited, edits, goal_alerts,
                   max_alerts, edit_latched>>
    /\ Obs("checkbox_was_toggled", 0, FALSE, FALSE,
           display_sound(foreground_is_tracked, idle_sound_played))

\* MainWindow.toggle_idle_sound: the setting flips, "snd on" / "snd off" shows
ToggleIdleSound ==
    /\ play_sound_on_idle' = ~play_sound_on_idle
    /\ UNCHANGED <<idle_timeout, goal_time, previous_time,
                   show_border_when_not_working, tracked_programs, time_history>>
    /\ UNCHANGED <<env_vars, win_vars>>
    /\ UNCHANGED <<should_count, counted_time, edited, edits, goal_alerts,
                   max_alerts, edit_latched>>
    /\ Obs("toggle_idle_sound", 0, FALSE, FALSE, FALSE)

\* MainWindow.clear_message (message_timer timeout)
ClearMessage ==
    /\ showing_message
    /\ idle_sound_played' = display_latch(foreground_is_tracked, idle_sound_played)
    /\ UNCHANGED <<elapsed_seconds, active_timer, max_time_reached,
                   goal_time_reached, foreground_is_tracked, wait_to_add_program,
                   wait_to_remove_program, window_title, border_visible>>
    /\ UNCHANGED <<env_vars, cfg_vars>>
    /\ UNCHANGED <<should_count, counted_time, edited, edits, goal_alerts,
                   max_alerts, edit_latched>>
    /\ Obs("clear_message", 0, FALSE, FALSE,
           display_sound(foreground_is_tracked, idle_sound_played))

\* mutant: disabling the setting leaves a visible border on screen
ToggleCall_NoHide(is_enabled) ==
    IF is_enabled
    THEN (IF ~foreground_is_tracked \/ IdleNow THEN "show" ELSE "none")
    ELSE "none"

\* toggle_border_indicator: the call made on border_windows
ToggleCall(is_enabled) ==
    IF is_enabled
    THEN (IF ~foreground_is_tracked \/ IdleNow THEN "show" ELSE "none")
    ELSE (IF border_visible THEN "hide" ELSE "none")

\* MainWindow.toggle_border_indicator: the setting flips, "brdr on" /
\* "brdr off" shows, the border is shown or hidden at once
ToggleBorderIndicator ==
    LET is_enabled == ~show_border_when_not_working
        call == ToggleCall(is_enabled)
    IN  /\ show_border_when_not_working' = is_enabled
        /\ border_call' = call
        /\ border_visible' = VisibleAfter(call)
        /\ idle_sound_played' =
             IF is_enabled
             THEN display_latch(foreground_is_tracked, idle_sound_played)
             ELSE idle_sound_played
        /\ UNCHANGED <<elapsed_seconds, active_timer, max_time_reached,
                       goal_time_reached, foreground_is_tracked,
                       wait_to_add_program, wait_to_remove_program, window_title>>
        /\ UNCHANGED <<idle_timeout, goal_time, previous_time, play_sound_on_idle,
                       tracked_programs, time_history>>
        /\ UNCHANGED env_vars
        /\ UNCHANGED <<should_count, counted_time, edited, edits, goal_alerts,
                       max_alerts, edit_latched>>
        /\ Obs("toggle_border_indicator", 0, FALSE, FALSE,
               is_enabled /\ display_sound(foreground_is_tracked, idle_sound_played))

NextBorder ==
    \/ Advance
    \/ UserInput
    \/ FocusChange
    \/ CheckActiveWindow
    \/ OnUpdate
    \/ ToggleBorderIndicator

SpecBorder == Init /\ [][NextBorder]_vars

\* a first launch with the default tracked program in the foreground
InitDisplay ==
    /\ active_exe = ExplorerExe
    /\ self_focused = FALSE
    /\ Startup([idle_timeout |-> DEFAULT_IDLE_TIMEOUT, goal_time |-> 0,
                previous_time |-> 0, play_sound_on_idle |-> TRUE,
                show_border_when_not_working |-> TRUE, programs |-> {},
                time_history |-> << >>])

NextDisplay ==
    \/ Advance
    \/ OnUpdate
    \/ CheckActiveWindow
    \/ ChangeCurrentTime
    \/ CheckboxWasToggled
    \/ ToggleIdleSound
    \/ ClearMessage

SpecDisplay == InitDisplay /\ [][NextDisplay]_vars

\* bound of the queue of posted callbacks
MaxPending == 2

\* mutant: the filter calls add_program itself
NativeEventFilter_Direct ==
    LET r == add_program(tracked_programs, foreground_is_tracked, idle_sound_played)
    IN  /\ \E id \in HotkeyIds : registered[id] # NoCombo /\ id_to_cb[id] = "add_program"
        /\ foreground_is_tracked' = r.fg
        /\ tracked_programs' = r.tracked
        /\ idle_sound_played' = r.latch
        /\ UNCHANGED <<elapsed_seconds, active_timer, max_time_reached,
                       goal_time_reached, wait_to_add_program,
                       wait_to_remove_program, window_title, border_visible>>
        /\ UNCHANGED <<idle_timeout, goal_time, previous_time, play_sound_on_idle,
                       show_border_when_not_working, time_history>>
        /\ UNCHANGED env_vars
        /\ UNCHANGED <<should_count, counted_time, edited, edits, goal_alerts,
                       max_alerts, edit_latched>>
        /\ UNCHANGED hk_vars
        /\ Obs("nativeEventFilter", 0, FALSE, FALSE, r.sound)

\* HotkeyManager.nativeEventFilter on a WM_HOTKEY message of a registered id
NativeEventFilter ==
    /\ Len(pending) < MaxPending
    /\ \E id \in HotkeyIds :
         /\ registered[id] # NoCombo
         /\ pending' = IF id_to_cb[id] # NoCallback
                       THEN Append(pending, id_to_cb[id]) ELSE pending
    /\ hotkey_error' = FALSE
    /\ UNCHANGED <<add_program_hotkey, remove_program_hotkey, id_to_cb, registered>>
    /\ UNCHANGED <<env_vars, win_vars, cfg_vars>>
    /\ UNCHANGED <<should_count, counted_time, edited, edits, goal_alerts,
                   max_alerts, edit_latched>>
    /\ Obs("nativeEventFilter", 0, FALSE, FALSE, FALSE)

\* the event loop runs the oldest posted callback
RunDeferred ==
    /\ pending # << >>
    /\ \/ Head(pending) = "add_program" /\ AddProgram
       \/ Head(pending) = "remove_program" /\ RemoveProgram

\* the sequences entered in the shortcut dialog
ShortcutChoices ==
    {<<"f9">>, <<"ctrl", "alt", "f9">>, <<"win", "shift", "-">>,
     <<"shift", "a">>, <<"key_16777249">>}

\* MainWindow.set_add_program_shortcut / set_remove_program_shortcut with the
\* dialog accepted on new_shortcut
SetShortcut(op, callback, old_shortcut, new_shortcut) ==
    LET r == replace_hotkey([cb |-> id_to_cb, os |-> registered],
                            old_shortcut, new_shortcut, callback)
    IN  /\ id_to_cb' = r.cb
        /\ registered' = r.os
        /\ hotkey_error' = r.raised
        /\ add_program_hotkey' =
             IF callback = "add_program" /\ ~r.raised
             THEN new_shortcut ELSE add_program_hotkey
        /\ remove_program_hotkey' =
             IF callback = "remove_program" /\ ~r.raised
             THEN new_shortcut ELSE remove_program_hotkey
        /\ UNCHANGED pending
        /\ UNCHANGED <<env_vars, win_vars, cfg_vars>>
        /\ UNCHANGED <<should_count, counted_time, edited, edits, goal_alerts,
                       max_alerts, edit_latched>>
        /\ Obs(op, 0, FALSE, FALSE, FALSE)

SetAddProgramShortcut ==
    \E new_shortcut \in ShortcutChoices :
        SetShortcut("set_add_program_shortcut", "add_program",
                    add_program_hotkey, new_shortcut)

SetRemoveProgramShortcut ==
    \E new_shortcut \in ShortcutChoices :
        SetShortcut("set_remove_program_shortcut", "remove_program",
                    remove_program_hotkey, new_shortcut)

NextHotkeys ==
    \/ FocusChange
    \/ CheckActiveWindow
    \/ NativeEventFilter
    \/ RunDeferred
    \/ SetAddProgramShortcut
    \/ SetRemoveProgramShortcut

SpecHotkeys == Init /\ [][NextHotkeys]_vars

\* Scenario A: idle_timeout = 30, a tracked program in the foreground from
\* t = 0, the user at work (never idle) for 65 s.
ScenarioA == [duration |-> 65]

InitA ==
    /\ active_exe = ExplorerExe
    /\ self_focused = FALSE
    /\ Startup([idle_timeout |-> DEFAULT_IDLE_TIMEOUT, goal_time |-> 0,
                previous_time |-> 0, play_sound_on_idle |-> TRUE,
                show_border_when_not_working |-> TRUE, programs |-> {},
                time_history |-> << >>])

\* One clock unit passes with user input in it.  Both 200 ms timers have
\* fired within the unit: the poll has seen the tracked foreground and
\* on_update was the last handler.
AdvanceA ==
    /\ last_op = "on_update"
    /\ foreground_is_tracked
    /\ now < ScenarioA.duration * UnitsPerSec
    /\ now' = now + 1
    /\ idle_duration' = 0
    /\ counted_time' = counted_time + (IF should_count THEN 1 ELSE 0)
    /\ UNCHANGED <<active_exe, self_focused, win_vars, cfg_vars>>
    /\ UNCHANGED <<should_count, edited, edits, goal_alerts, max_alerts, edit_latched>>
    /\ Obs("env", 0, FALSE, FALSE, FALSE)

NextA ==
    \/ AdvanceA
    \/ OnUpdate
    \/ CheckActiveWindow

SpecA == InitA /\ [][NextA]_vars

\* Scenario B: idle_timeout = 30, a tracked program in the foreground from
\* t = 0, the last user input at t = 10 s, no input for the next 40 s.
ScenarioB == [idle_start |-> 10, idle_span |-> 40]

InitB ==
    /\ active_exe = ExplorerExe
    /\ self_focused = FALSE
    /\ Startup([idle_timeout |-> DEFAULT_IDLE_TIMEOUT, goal_time |-> 0,
                previous_time |-> 0, play_sound_on_idle |-> TRUE,
                show_border_when_not_working |-> TRUE, programs |-> {},
                time_history |-> << >>])

\* One clock unit passes.  Both 200 ms timers have fired within the unit: the
\* poll has seen the tracked foreground and on_update was the last handler.
AdvanceB ==
    /\ last_op = "on_update"
    /\ foreground_is_tracked
    /\ now < (ScenarioB.idle_start + ScenarioB.idle_span) * UnitsPerSec
    /\ now' = now + 1
    /\ idle_duration' = IF now' <= ScenarioB.idle_start * UnitsPerSec
                        THEN 0 ELSE idle_duration + 1
    /\ counted_time' = counted_time + (IF should_count THEN 1 ELSE 0)
    /\ UNCHANGED <<active_exe, self_focused, win_vars, cfg_vars>>
    /\ UNCHANGED <<should_count, edited, edits, goal_alerts, max_alerts, edit_latched>>
    /\ Obs("env", 0, FALSE, FALSE, FALSE)

NextB ==
    \/ AdvanceB
    \/ OnUpdate
    \/ CheckActiveWindow

SpecB == InitB /\ [][NextB]_vars

\* ------------------------------------------------------------------ claims
EditOps == {"change_current_time", "resume_time_from_history"}

\* C1: as long as no reset, manual time change or resume has happened, the
\* session total (elapsed_seconds plus the live segment) equals the clock time
\* that passed after on_update ticks whose should_count was true, however the
\* true and false spans interleave.
C1_TotalIsCountedTime == ~edited => Total = counted_time

\* a second Running segment after a counted and an uncounted span
C1_Witness ==
    /\ ~edited
    /\ active_timer.valid
    /\ elapsed_seconds > 0
    /\ nsecsElapsed > 0
    /\ Total < now

\* C2: the total read right after a reset_time performed with total > 0 is 0,
\* in either run state.
C2_ResetLeavesZero ==
    last_op = "reset_time" => Total = 0

\* C3: the total read right after a manual time change or a history resume
\* to s equals s, whatever the run state before.
C3_SetTotalIsExact ==
    last_op \in EditOps => Total = last_arg * UnitsPerSec

\* C4: within one span without reset, manual edit or goal edit the goal alert
\* is shown at most once; it is shown only by an on_update tick with
\* goal_time > 0 and total >= goal_time; and after every tick with
\* goal_time > 0 and total >= goal_time the latch is set and the alert of this
\* span has been shown (unless a manual edit set the latch).
C4_GoalAlertOnce ==
    /\ goal_alerts <= 1
    /\ goal_fired =>
         (last_op = "on_update" /\ goal_time > 0
            /\ Total >= goal_time * UnitsPerSec)
    /\ (last_op = "on_update" /\ goal_time > 0
          /\ Total >= goal_time * UnitsPerSec) =>
         (goal_time_reached /\ (goal_alerts = 1 \/ edit_latched))

\* a later tick above the goal, after the alert of this span, shows nothing
C4_Witness ==
    /\ last_op = "on_update"
    /\ ~goal_fired
    /\ goal_alerts = 1
    /\ ~edit_latched
    /\ goal_time_reached
    /\ Total > goal_time * UnitsPerSec

\* C5: right after a manual time change or a history resume the goal latch is
\* true exactly when goal_time > 0 and the new total is >= goal_time.
C5_LatchFollowsNewTotal ==
    last_op \in EditOps =>
        (goal_time_reached <=>
            (goal_time > 0 /\ Total >= goal_time * UnitsPerSec))

\* C6 as stated: right after a goal edit to g > 0 with total >= g the latch
\* is true.
C6_GoalEditRederives ==
    (last_op = "set_goal_time" /\ goal_time > 0
       /\ Total >= goal_time * UnitsPerSec) => goal_time_reached

\* C6 amended: a goal edit leaves the latch false, and when the new goal is
\* > 0 and the total is already >= it, the on_update tick that follows shows
\* the goal alert and sets the latch.
C6_GoalEditClearsLatch ==
    /\ [](last_op = "set_goal_time" => (~goal_time_reached /\ goal_alerts = 0))
    /\ [][(last_op = "set_goal_time" /\ last_op' = "on_update"
             /\ goal_time > 0 /\ Total >= goal_time * UnitsPerSec)
          => (goal_fired' /\ goal_time_reached')]_vars

C6_Witness ==
    /\ last_op = "set_goal_time"
    /\ goal_time > 0
    /\ Total >= goal_time * UnitsPerSec
    /\ ~goal_time_reached

\* C7: within one span without reset, manual time change or resume the
\* maximum-time alert is shown at most once, only by an on_update tick with
\* total >= max_time; after every tick with total >= max_time it has been
\* shown; and once shown max_time_reached stays true for the rest of the span.
C7_MaxAlertOnce ==
    /\ max_alerts <= 1
    /\ max_fired => (last_op = "on_update" /\ Total >= max_time * UnitsPerSec)
    /\ (last_op = "on_update" /\ Total >= max_time * UnitsPerSec) =>
         max_alerts = 1
    /\ max_alerts = 1 => max_time_reached

\* a later tick after the alert of this span shows nothing, the latch is set
C7_Witness ==
    /\ last_op = "on_update"
    /\ ~max_fired
    /\ max_alerts = 1
    /\ max_time_reached
    /\ Total > max_time * UnitsPerSec

C9_SoundOncePerSpan ==
    last_op = "on_update" =>
        /\ (IdleNow /\ play_sound_on_idle) =>
             (sounds_in_span = 1 /\ idle_sound_played)
        /\ ~IdleNow => ~idle_sound_played

\* C10 as stated (Scenario B): from the tick at which the idle duration has
\* reached the timeout, the accumulator holds at 10 s.
C10_HoldsAtIdleStart ==
    (last_op = "on_update" /\ IdleNow) =>
        Total = ScenarioB.idle_start * UnitsPerSec

\* C10 amended (Scenario B): should_count is false exactly at the ticks where
\* the idle duration has reached 30 s, and from the first of them the
\* accumulator is Paused and holds at 40 s (10 s of activity plus the 30 s
\* until the timeout) for the remainder of the idle span.
C10_HoldsAtTimeout ==
    (last_op = "on_update" /\ foreground_is_tracked) =>
        /\ should_count <=> ~IdleNow
        /\ IdleNow =>
             /\ ~active_timer.valid
             /\ Total = (ScenarioB.idle_start + idle_timeout) * UnitsPerSec

\* the last tick of the idle span
C10_Witness ==
    /\ last_op = "on_update"
    /\ now = (ScenarioB.idle_start + ScenarioB.idle_span) * UnitsPerSec
    /\ idle_duration = ScenarioB.idle_span * UnitsPerSec
    /\ ~should_count
    /\ Total = (ScenarioB.idle_start + DEFAULT_IDLE_TIMEOUT) * UnitsPerSec

\* C11 as stated: after an on_update tick taken while the application itself
\* holds the focus the accumulator is not Running, whatever the previous
\* activity poll observed.
C11_SelfFocusNeverCounts ==
    (last_op = "on_update" /\ self_focused) => ~active_timer.valid

\* C11 amended: an activity poll taken while the application holds the focus
\* leaves foreground_is_tracked false, whatever the tracked set contains; as
\* long as the focus stays on the application no handler sets it again; and
\* every on_update tick taken in that condition leaves the accumulator Paused.
C11_SelfFocusAfterPoll ==
    /\ []((last_op = "check_active_window" /\ self_focused)
            => ~foreground_is_tracked)
    /\ [][(self_focused /\ self_focused' /\ ~foreground_is_tracked)
            => ~foreground_is_tracked']_vars
    /\ [][(self_focused /\ ~foreground_is_tracked /\ last_op' = "on_update")
            => ~active_timer'.valid]_vars

\* the application's own executable is tracked and focused: the tick after
\* the poll has paused the segment that was running
C11_Witness ==
    /\ last_op = "on_update"
    /\ self_focused
    /\ active_exe \in tracked_programs
    /\ ~foreground_is_tracked
    /\ ~active_timer.valid
    /\ elapsed_seconds > 0

\* C12: right after every activity poll foreground_is_tracked is true exactly
\* when a foreground executable is present, it is in the tracked set and the
\* application itself is not focused; and the on_update tick that follows a
\* poll that found no foreground executable leaves the accumulator Paused.
C12_PollSetsTracked ==
    /\ [](last_op = "check_active_window" =>
            (foreground_is_tracked <=>
               (active_exe # NoExe /\ active_exe \in tracked_programs
                  /\ ~self_focused)))
    /\ [][(last_op = "check_active_window" /\ active_exe = NoExe
             /\ last_op' = "on_update") => ~active_timer'.valid]_vars

\* the foreground executable disappears while a segment is running: the poll
\* reports not tracked
C12_Witness ==
    /\ last_op = "check_active_window"
    /\ active_exe = NoExe
    /\ ~foreground_is_tracked
    /\ active_timer.valid
    /\ nsecsElapsed > 0

\* C13: every on_update tick computes should_count as tracked and not idle;
\* it starts the timer (at the current clock, elapsed_seconds untouched) only
\* when should_count is true, stops it only when should_count is false,
\* adding the live segment to elapsed_seconds and invalidating the timer;
\* when the run state already matches it changes neither elapsed_seconds nor
\* the timer; and after the tick the timer runs iff should_count was true.
C13_TwoStateMachine ==
    [][last_op' = "on_update" =>
        /\ should_count' <=>
              (foreground_is_tracked
                 /\ idle_duration < idle_timeout * UnitsPerSec)
        /\ active_timer'.valid <=> should_count'
        /\ (~active_timer.valid /\ active_timer'.valid) =>
              /\ should_count'
              /\ active_timer'.start = now
              /\ elapsed_seconds' = elapsed_seconds
        /\ (active_timer.valid /\ ~active_timer'.valid) =>
              /\ ~should_count'
              /\ elapsed_seconds' =
                    elapsed_seconds + (now - active_timer.start)
        /\ (active_timer.valid <=> active_timer'.valid) =>
              /\ elapsed_seconds' = elapsed_seconds
              /\ active_timer' = active_timer]_vars

\* a tick that continues the second Running segment
C13_Witness ==
    /\ last_op = "on_update"
    /\ should_count
    /\ active_timer.valid
    /\ active_timer.start < now
    /\ elapsed_seconds > 0
    /\ ~edited

\* C14: in every reachable state the session total is >= 0, and no step other
\* than a reset, a manual time change or a history resume decreases it.
C14_TotalMonotone ==
    /\ [](Total >= 0)
    /\ [][last_op' \notin {"reset_time", "change_current_time",
                           "resume_time_from_history"}
            => Total' >= Total]_vars

\* the tick that folds a live segment into elapsed_seconds, total unchanged
C14_Witness ==
    /\ last_op = "on_update"
    /\ ~edited
    /\ ~active_timer.valid
    /\ elapsed_seconds >= 2
    /\ Total = counted_time

\* C15: the reads of the total change nothing: the activity poll, which
\* computes the total for the display, leaves elapsed_seconds and the timer
\* as they were; reset, manual time change and resume, which compute it for
\* the history, leave the timer as it was; and outside those three
\* operations elapsed_seconds changes only at a Running -> Paused transition
\* of on_update, where it becomes the total of that moment, so that the live
\* segment is added exactly once.
C15_ReadsArePure ==
    /\ [][last_op' = "check_active_window" =>
            (elapsed_seconds' = elapsed_seconds /\ active_timer' = active_timer)]_vars
    /\ [][last_op' \in {"reset_time", "change_current_time",
                         "resume_time_from_history"} =>
            active_timer' = active_timer]_vars
    /\ [][(elapsed_seconds' # elapsed_seconds
             /\ last_op' \notin {"reset_time", "change_current_time",
                                 "resume_time_from_history"}) =>
            /\ last_op' = "on_update"
            /\ active_timer.valid
            /\ ~active_timer'.valid
            /\ elapsed_seconds' = Total]_vars

\* a display refresh in the middle of the second Running segment
C15_Witness ==
    /\ last_op = "check_active_window"
    /\ ~edited
    /\ active_timer.valid
    /\ nsecsElapsed > 0
    /\ elapsed_seconds > 0
    /\ Total = counted_time

\* C16: reset_time takes its no-op branch exactly when the total is 0, and
\* the no-op leaves elapsed_seconds, the timer, both latches, the history and
\* the persisted previous time unchanged.
C16_ResetOnZeroIsNoop ==
    /\ [][last_op' = "reset_time_noop" =>
            /\ Total = 0
            /\ elapsed_seconds' = elapsed_seconds
            /\ active_timer' = active_timer
            /\ goal_time_reached' = goal_time_reached
            /\ max_time_reached' = max_time_reached
            /\ time_history' = time_history
            /\ previous_time' = previous_time]_vars
    /\ [][last_op' = "reset_time" => Total > 0]_vars

\* a reset on a fresh session that carries a previous session over
C16_Witness ==
    /\ last_op = "reset_time_noop"
    /\ Total = 0
    /\ previous_time > 0
    /\ Len(time_history) > 0

\* C17: every reset, manual time change and history resume performed when
\* the total (elapsed_seconds plus the live segment) is at least 1 second
\* leaves the whole seconds of that pre-operation total as the newest history
\* entry.
C17_TotalCapturedFirst ==
    [][(last_op' \in {"reset_time", "change_current_time",
                       "resume_time_from_history"}
          /\ Total >= UnitsPerSec) =>
         /\ Len(time_history') > 0
         /\ time_history'[Len(time_history')] = Total \div UnitsPerSec]_vars

\* a reset in the first Running segment has captured its one second
C17_Witness ==
    /\ last_op = "reset_time"
    /\ active_timer.valid
    /\ active_timer.start = 0
    /\ now >= UnitsPerSec
    /\ Len(time_history) > 0
    /\ time_history[Len(time_history)] = now \div UnitsPerSec

\* C18: on_update ticks, activity polls (a consumed add or remove request
\* included), the menu requests and the autosave leave the history unchanged;
\* the history changes only in reset, manual time change, resume, closeEvent
\* and the carry-over of the next launch.
C18_LedgerOnlyAtBoundaries ==
    /\ [][last_op' \in {"on_update", "check_active_window", "save_data",
                         "add_program_mouse", "remove_program_mouse", "env"}
            => time_history' = time_history]_vars
    /\ [][time_history' # time_history =>
            last_op' \in {"reset_time", "change_current_time",
                          "resume_time_from_history", "closeEvent", "init"}]_vars

\* a poll has consumed a remove request after more than a second of counted
\* time: the history is still the one the launch left
C18_Witness ==
    /\ last_op = "check_active_window"
    /\ tracked_programs = {}
    /\ Total >= UnitsPerSec
    /\ previous_time = 4
    /\ time_history = <<3, 4>>

\* Scenario D: recording 10, 20, 30, 40, 50, 60 into an empty history
ScenarioD ==
    add_time_to_history(add_time_to_history(add_time_to_history(
        add_time_to_history(add_time_to_history(add_time_to_history(
            << >>, 10), 20), 30), 40), 50), 60)

\* C19: after any sequence of add_time_to_history calls the history holds at
\* most 5 entries; recording a new value into a history of 5 drops the oldest
\* entry and keeps the others in their order, into a shorter history appends
\* it; a value <= 0 is not recorded; Scenario D gives [20,30,40,50,60].
C19_LedgerCapped ==
    /\ [](Len(time_history) <= 5)
    /\ [](ScenarioD = <<20, 30, 40, 50, 60>>)
    /\ [][last_op' = "add_time_to_history" =>
            /\ last_arg' <= 0 => time_history' = time_history
            /\ (last_arg' > 0 /\ ~InSeq(time_history, last_arg')) =>
                  time_history' =
                     IF Len(time_history) = 5
                     THEN Tail(time_history) \o <<last_arg'>>
                     ELSE time_history \o <<last_arg'>>]_vars

\* the sixth distinct value has evicted the oldest one
C19_Witness ==
    /\ last_op = "add_time_to_history"
    /\ prev_len = 5
    /\ last_arg = 60
    /\ time_history = <<20, 30, 40, 50, 60>>

\* Scenario C: recording 120 twice into an empty history
ScenarioC == add_time_to_history(add_time_to_history(<< >>, 120), 120)

\* C20: recording x > 0 that is already in the history removes the earlier
\* occurrence and appends x: the length does not grow, x occurs exactly once,
\* at the newest position, and the other entries keep their order; recording
\* the value recorded last again leaves the history as it is; Scenario C
\* gives [120].
C20_ReinsertionIdempotent ==
    /\ [](ScenarioC = <<120>>)
    /\ [][(last_op' = "add_time_to_history" /\ last_arg' > 0
             /\ \E i \in 1..Len(time_history) : time_history[i] = last_arg') =>
            /\ Len(time_history') = Len(time_history)
            /\ time_history'[Len(time_history')] = last_arg'
            /\ Cardinality({i \in 1..Len(time_history') :
                              time_history'[i] = last_arg'}) = 1
            /\ time_history' = RemoveFirst(time_history, last_arg') \o <<last_arg'>>
            /\ (time_history[Len(time_history)] = last_arg' =>
                   time_history' = time_history)]_vars

\* an older entry has been recorded again and moved to the newest position
C20_Witness ==
    /\ last_op = "add_time_to_history"
    /\ last_arg = 10
    /\ prev_len = 3
    /\ time_history = <<20, 30, 10>>

\* C21: in every reachable state, the state right after the load of a
\* persisted list of arbitrary numbers included, the history is a sequence
\* of at most 5 pairwise distinct, strictly positive integers.
C21_LedgerWellFormed ==
    /\ Len(time_history) <= 5
    /\ \A i \in 1..Len(time_history) : time_history[i] > 0
    /\ \A i, j \in 1..Len(time_history) :
          i # j => time_history[i] # time_history[j]

\* C22: add_time_to_history with a value <= 0 returns the history it was
\* given, for every history the program reaches; and a reset, manual time
\* change, resume or closeEvent reached with a total below one second leaves
\* the history unchanged.
C22_NonPositiveNotRecorded ==
    /\ [](\A x \in {0 - 1, 0} :
            add_time_to_history(time_history, x) = time_history)
    /\ [][(last_op' \in {"reset_time", "reset_time_noop", "change_current_time",
                          "resume_time_from_history", "closeEvent"}
             /\ Total < UnitsPerSec) => time_history' = time_history]_vars

\* the window is closed half a second into the first Running segment
C22_Witness ==
    /\ last_op = "closeEvent"
    /\ active_timer.valid
    /\ Total > 0
    /\ Total < UnitsPerSec
    /\ time_history = <<3, 4>>

\* C23: the list the history menu is built from is the exact reverse of the
\* stored history (newest entry first, oldest last), and reading it leaves
\* the stored history as it was.
C23_NewestFirst ==
    /\ [](last_op = "update_menu" =>
            /\ Len(history_menu) = Len(time_history)
            /\ \A i \in 1..Len(time_history) :
                  history_menu[i] = time_history[Len(time_history) + 1 - i])
    /\ [][last_op' = "update_menu" => time_history' = time_history]_vars
    /\ [][(last_op = "add_time_to_history" /\ last_arg > 0
             /\ last_op' = "update_menu") => Head(history_menu') = last_arg]_vars

\* a full history is read right after 20 was recorded on top of it
C23_Witness ==
    /\ last_op = "update_menu"
    /\ time_history = <<3, 4, 5, 6, 20>>
    /\ history_menu = <<20, 6, 5, 4, 3>>

\* C24: whenever the time is visible and no message is showing, the label
\* is a time of at most 99:59:59, also while the total exceeds
\* 99*3600+59*60+59 seconds and after the maximum-time alert has fired.
C24_DisplayClamped ==
    (~hide_time /\ ~showing_message) =>
        /\ label.kind = "time"
        /\ Number(label.hh) <= 99
        /\ Number(label.hh) * 3600 + Number(label.mm) * 60 + Number(label.ss)
             <= max_time

\* a tick displays a total above the maximum after the alert has fired
C24_Witness ==
    /\ ~hide_time
    /\ ~showing_message
    /\ last_op = "on_update"
    /\ max_time_reached
    /\ max_alerts > 0
    /\ Total > max_time * UnitsPerSec
    /\ label = TimeLabel([h |-> 99, m |-> 59, s |-> 59])

\* C25: a displayed time is the zero-padded two-digit h, m, s of the rounded,
\* clamped total, with m and s in 0..59; for every whole number of seconds T
\* in 0..359999 the conversion gives h*3600 + m*60 + s = T with m, s in 0..59
\* (a fact about the conversion alone, evaluated in the initial state); and
\* in Scenario A the tick at t = 65 s finds a total of 65 s and displays
\* 00:01:05.
C25_DisplayIsHms ==
    /\ (last_op = "on_update" /\ label.kind = "time") =>
          /\ Len(label.hh) = 2 /\ Len(label.mm) = 2 /\ Len(label.ss) = 2
          /\ Number(label.mm) \in 0..59
          /\ Number(label.ss) \in 0..59
          /\ Number(label.hh) * 3600 + Number(label.mm) * 60 + Number(label.ss)
               = round(Min(Total, max_time * UnitsPerSec))
    /\ last_op = "init" =>
          \A T \in 0..max_time :
              LET hms == convert_seconds_to_hms(T * UnitsPerSec)
              IN  /\ hms.h * 3600 + hms.m * 60 + hms.s = T
                  /\ hms.m \in 0..59
                  /\ hms.s \in 0..59
    /\ (last_op = "on_update" /\ now = ScenarioA.duration * UnitsPerSec) =>
          /\ Total = 65 * UnitsPerSec
          /\ label = [kind |-> "time", hh |-> <<0, 0>>, mm |-> <<0, 1>>,
                      ss |-> <<0, 5>>]

\* the tick at t = 65 s of Scenario A
C25_Witness ==
    /\ last_op = "on_update"
    /\ now = ScenarioA.duration * UnitsPerSec
    /\ should_count
    /\ active_timer.valid
    /\ label.kind = "time"

\* C26: the native event filter changes nothing but the queue of posted
\* callbacks, to which it appends the registered callback; add_program and
\* remove_program run only as the step that takes their entry from the head
\* of that queue.
C26_HotkeyCallbackDeferred ==
    /\ [][last_op' = "nativeEventFilter" =>
            /\ UNCHANGED <<win_vars, cfg_vars, label, showing_message>>
            /\ \E id \in HotkeyIds :
                  /\ id_to_cb[id] # NoCallback
                  /\ pending' = Append(pending, id_to_cb[id])]_vars
    /\ [][last_op' \in {"add_program", "remove_program"} =>
            /\ pending # << >>
            /\ Head(pending) = last_op'
            /\ pending' = Tail(pending)]_vars

\* a posted add_program has run and tracked the foreground program while a
\* later hotkey event is still queued
C26_Witness ==
    /\ last_op = "add_program"
    /\ foreground_is_tracked
    /\ active_exe \in tracked_programs
    /\ pending = <<"remove_program">>

\* C27: after a hotkey replacement that failed (the error dialog was shown)
\* both configured sequences are as before, and every callback that had a
\* registered key combination before has the same combination registered.
C27_FailedReplaceRestores ==
    [][(last_op' \in {"set_add_program_shortcut", "set_remove_program_shortcut"}
         /\ hotkey_error') =>
          /\ add_program_hotkey' = add_program_hotkey
          /\ remove_program_hotkey' = remove_program_hotkey
          /\ \A i \in HotkeyIds :
                (id_to_cb[i] # NoCallback /\ registered[i] # NoCombo) =>
                    \E j \in HotkeyIds :
                        /\ id_to_cb'[j] = id_to_cb[i]
                        /\ registered'[j] = registered[i]]_vars

\* C28 (as stated): after every activity-poll tick no add or remove request
\* is pending.
C28_ConsumedOnNextPoll ==
    [][last_op' = "check_active_window" =>
          (~wait_to_add_program' /\ ~wait_to_remove_program')]_vars

\* C28 (amended): a poll tick taken while the application itself is focused
\* leaves a pending request and the tracked programs as they are; a poll tick
\* taken while it is not focused clears both flags and, if there is a
\* foreground program, adds it (add request pending, which wins over a
\* remove request) or removes it (only a remove request pending).
C28_ConsumedWhenNotFocused ==
    [][(last_op' = "check_active_window"
         /\ (wait_to_add_program \/ wait_to_remove_program)) =>
          IF self_focused
          THEN /\ wait_to_add_program' = wait_to_add_program
               /\ wait_to_remove_program' = wait_to_remove_program
               /\ tracked_programs' = tracked_programs
          ELSE /\ ~wait_to_add_program'
               /\ ~wait_to_remove_program'
               /\ tracked_programs' =
                    IF active_exe = NoExe THEN tracked_programs
                    ELSE IF wait_to_add_program
                    THEN tracked_programs \cup {active_exe}
                    ELSE tracked_programs \ {active_exe}]_vars

\* a poll has served a remove request: the foreground program is no longer
\* tracked and no request is pending
C28_Witness ==
    /\ last_op = "check_active_window"
    /\ ~wait_to_add_program
    /\ ~wait_to_remove_program
    /\ edits > 0
    /\ active_exe = ExplorerExe
    /\ ~self_focused
    /\ ExplorerExe \notin tracked_programs
    /\ ~foreground_is_tracked

\* C29: an on_update tick that follows another on_update tick with the same
\* should_count, with no change of the border setting since that tick, calls
\* neither show() nor hide(); and a tick calls show() only on a hidden border
\* and hide() only on a visible one.
C29_BorderOncePerEdge ==
    /\ [][(last_op' = "on_update" /\ border_span /\ should_count' = should_count)
            => border_call' = "none"]_vars
    /\ [][last_op' = "on_update" =>
            /\ border_call' = "show" => (~border_visible /\ border_visible')
            /\ border_call' = "hide" => (border_visible /\ ~border_visible')]_vars

\* a second not-counting tick in a row finds the border already shown
C29_Witness ==
    /\ last_op = "on_update"
    /\ border_span
    /\ ~should_count
    /\ show_border_when_not_working
    /\ border_visible
    /\ border_call = "none"

\* C30: right after an autosave (save_data) the persisted previous_time is
\* the whole-second value of the session total, the live Running segment
\* included.
C30_AutosaveHoldsTotal ==
    last_op = "save_data" => previous_time = IntSeconds(Total)

\* C31: right after a launch the timer is not running, the total is 0, the
\* two threshold latches and the idle-sound latch are false and, when the
\* persisted previous_time is > 0, it is the newest entry of the history;
\* a launch on previous_time = 0 leaves the history as it was loaded from the
\* file the closed process left.
C31_StartupState ==
    /\ [](last_op = "init" =>
            /\ ~active_timer.valid
            /\ Total = 0
            /\ ~max_time_reached
            /\ ~goal_time_reached
            /\ ~idle_sound_played
            /\ previous_time > 0 =>
                  (/\ time_history # << >>
                   /\ time_history[Len(time_history)] = previous_time))
    /\ [][(last_op' = "init" /\ previous_time = 0) =>
            time_history' = time_history]_vars

\* a relaunch has carried the previous session over on top of older entries
C31_Witness ==
    /\ last_op = "init"
    /\ edits > 0
    /\ previous_time > 0
    /\ Len(time_history) >= 2
    /\ time_history[Len(time_history)] = previous_time
    /\ time_history[1] # previous_time

\* C32: at every exit (closeEvent or the exception handler) the persisted
\* previous_time equals the whole-second value of the session total, which
\* is what the exit records to the history; and the launch that follows an
\* exit adds no entry to the history.
C32_OneEntryPerSession ==
    /\ [][last_op' \in ExitOps => previous_time' = IntSeconds(Total)]_vars
    /\ [][(last_op \in ExitOps /\ last_op' = "init") =>
            time_history' = time_history]_vars

\* C33: in every state the border is visible only if the border setting is
\* enabled, and right after an on_update tick it is visible exactly if
\* should_count was false at that tick and the setting is enabled.
C33_BorderVisibility ==
    /\ border_visible => show_border_when_not_working
    /\ last_op = "on_update" =>
          (border_visible <=> (~should_count /\ show_border_when_not_working))

\* the setting was switched off while the border was on screen
C33_Witness ==
    /\ last_op = "toggle_border_indicator"
    /\ border_call = "hide"
    /\ ~show_border_when_not_working
    /\ ~border_visible
    /\ border_span = FALSE
    /\ ~foreground_is_tracked

\* C34: in every state each of the two callbacks has exactly one id in the
\* id-to-callback map, and the key combination registered under that id is
\* the one the configured hotkey string of the callback parses to.
C34_ConfigNamesRegistration ==
    \A c \in {[cb |-> "add_program", seq |-> add_program_hotkey],
               [cb |-> "remove_program", seq |-> remove_program_hotkey]} :
        /\ Cardinality({i \in HotkeyIds : id_to_cb[i] = c.cb}) = 1
        /\ \A i \in HotkeyIds :
              id_to_cb[i] = c.cb =>
                  registered[i] = [mods |-> parse(c.seq).mods, vk |-> parse(c.seq).vk]

\* C35: add_program and remove_program (the hotkey callbacks) change neither
\* the tracked set nor foreground_is_tracked when there is no foreground
\* executable or the application itself is focused; otherwise add_program
\* leaves the set with exactly the foreground executable added and
\* foreground_is_tracked true, remove_program leaves it with exactly that
\* executable removed and foreground_is_tracked false.
C35_AddRemoveFrame ==
    /\ [][(last_op' \in {"add_program", "remove_program"}
             /\ (active_exe = NoExe \/ self_focused)) =>
              /\ tracked_programs' = tracked_programs
              /\ foreground_is_tracked' = foreground_is_tracked]_vars
    /\ [][(last_op' = "add_program" /\ active_exe # NoExe /\ ~self_focused) =>
              /\ tracked_programs' = tracked_programs \cup {active_exe}
              /\ active_exe \in tracked_programs'
              /\ foreground_is_tracked']_vars
    /\ [][(last_op' = "remove_program" /\ active_exe # NoExe /\ ~self_focused) =>
              /\ tracked_programs' = tracked_programs \ {active_exe}
              /\ active_exe \notin tracked_programs'
              /\ ~foreground_is_tracked']_vars

\* remove_program has removed the foreground program, which every settings
\* file tracks at startup
C35_Witness ==
    /\ last_op = "remove_program"
    /\ active_exe = ExplorerExe
    /\ ~self_focused
    /\ ExplorerExe \notin tracked_programs
    /\ ~foreground_is_tracked

\* C36: a poll tick taken while the application is not focused leaves no
\* request pending and changes the tracked set by at most the one request it
\* serves: with both requests pending only the add is performed; a poll tick
\* taken while the application is focused leaves both flags as they are; an
\* Escape key press clears both flags and leaves the tracked set and
\* foreground_is_tracked as they are.
C36_OneRequestPerTick ==
    /\ [][(last_op' = "check_active_window" /\ ~self_focused) =>
              /\ ~wait_to_add_program'
              /\ ~wait_to_remove_program'
              /\ (wait_to_add_program /\ wait_to_remove_program) =>
                    tracked_programs' =
                        (IF active_exe = NoExe THEN tracked_programs
                         ELSE tracked_programs \cup {active_exe})
              /\ Cardinality((tracked_programs' \ tracked_programs)
                             \cup (tracked_programs \ tracked_programs')) <= 1]_vars
    /\ [][(last_op' = "check_active_window" /\ self_focused) =>
              /\ wait_to_add_program' = wait_to_add_program
              /\ wait_to_remove_program' = wait_to_remove_program]_vars
    /\ [][last_op' = "eventFilter" =>
              /\ ~wait_to_add_program'
              /\ ~wait_to_remove_program'
              /\ tracked_programs' = tracked_programs
              /\ foreground_is_tracked' = foreground_is_tracked]_vars

\* after two menu requests a poll outside the application has served one of
\* them on the foreground program and nothing is pending
C36_Witness ==
    /\ last_op = "check_active_window"
    /\ edits >= 2
    /\ ~wait_to_add_program
    /\ ~wait_to_remove_program
    /\ active_exe = ExplorerExe
    /\ ~self_focused
    /\ foreground_is_tracked
    /\ showing_message

\* C37: the tracked-program set a launch loads is the set the process before
\* it held when it closed, the empty set included.
C37_TrackedSetSurvivesRestart ==
    [][last_op' = "init" => tracked_programs' = tracked_programs]_vars

\* C38: the window title is "WORK WORK" as long as no on_update tick of the
\* process had should_count true and never again after one had; right after
\* a tick with should_count true it is "KEEP WORKING"; right after a tick
\* with should_count false that follows a counting tick it is "BACK TO WORK".
C38_TitleTracksCounting ==
    /\ ~counting_started => window_title = "WORK WORK"
    /\ counting_started => window_title \in {"KEEP WORKING", "BACK TO WORK"}
    /\ (last_op = "on_update" /\ should_count) => window_title = "KEEP WORKING"
    /\ (last_op = "on_update" /\ ~should_count /\ counting_started) =>
          window_title = "BACK TO WORK"

\* a tick that does not count, after the process has counted
C38_Witness ==
    /\ last_op = "on_update"
    /\ ~should_count
    /\ counting_started
    /\ window_title = "BACK TO WORK"
    /\ elapsed_seconds > 0

====
